---- MODULE Spec2Model ----
(***************************************************************************)
(* Model of src/app.py: one Streamlit script run of the Explainable Data   *)
(* Analysis Tool, from the upload widget down to the LIME block.  A run is *)
(* the script executed top to bottom with the widget values of that run;   *)
(* every user interaction starts a new run (Rerun).  Calls into pandas,    *)
(* scikit-learn, xgboost, shap and lime are external: each either returns  *)
(* or raises, chosen nondeterministically.                                 *)
(***************************************************************************)
EXTENDS Integers, Sequences, FiniteSets, TLC

\* ------------------------------------------------------------------ bounds
\* Primary-metric values a candidate can score are 0..MaxScore.
MaxScore == 1
\* Distinct target values in a partition are 1..MaxClasses.
MaxClasses == 3

\* ------------------------------------------------------------- Python values
None == "None"
NoneV == [kind |-> "None", v |-> 0]
Float(x) == [kind |-> "float", v |-> x]
NegInf == [kind |-> "-inf", v |-> 0]
\* A metric whose value the script only stores and prints.
SomeFloat == Float(0)

Range(s) == {s[i] : i \in 1..Len(s)}

\* ------------------------------------------------------------------ inputs
\* The uploaded tables: column names in file order and the names pandas types
\* as numeric; the rest are object (categorical) columns.
Tables ==
  { [columns |-> <<"label", "x">>, numeric |-> {"x"}],
    [columns |-> <<"x", "y">>, numeric |-> {"x", "y"}],
    [columns |-> <<"label">>, numeric |-> {}] }

NoTable == [columns |-> <<>>, numeric |-> {}]
\* uploaded_file is None
NoFile == NoTable

\* len(np.unique(y_train)) and len(np.unique(y_test)) of a split.  The script
\* counts them for a classification target only.
TargetProfiles(mt) ==
  IF mt = "Classification"
    THEN [nunique_train : 1..MaxClasses, nunique_test : 1..MaxClasses]
    ELSE {[nunique_train |-> MaxClasses, nunique_test |-> MaxClasses]}

ModelTypes == {"Classification", "Regression"}
Buttons == {"none", "tsne", "pca", "train"}

\* ------------------------------------------------------------ pure helpers
\* select_dtypes(include=np.number) / select_dtypes(include='object'), in
\* column order.
numeric_columns(t) == SelectSeq(t.columns, LAMBDA c : c \in t.numeric)
categorical_columns(t) == SelectSeq(t.columns, LAMBDA c : c \notin t.numeric)

\* The options of the target selectbox.
TargetOptions(t, mt) ==
  IF mt = "Classification"
    THEN categorical_columns(t) \o numeric_columns(t)
    ELSE numeric_columns(t)

FeatureColumns_keepTarget(cols, target) == cols
\* [col for col in data.columns if col != target_column]
FeatureColumns(cols, target) == SelectSeq(cols, LAMBDA c : c # target)

\* The roster, in insertion order of the dict.
ClassifierNames ==
  <<"RandomForest", "DecisionTree", "SVC", "GaussianNB", "LogisticRegression",
    "XGBoost">>
RegressorNames ==
  <<"RandomForest", "DecisionTree", "SVR", "LinearRegression", "XGBoost">>
models(mt) == IF mt = "Classification" THEN ClassifierNames ELSE RegressorNames

\* hasattr(model, 'predict_proba'): the six classifiers of the roster have it
\* (SVC is built with probability=True), the five regressors do not.
HasPredictProba(mt, name) ==
  mt = "Classification" /\ name \in Range(ClassifierNames)

AverageMethod_atLeastTwo(mt, nunique) ==
  IF mt = "Classification" /\ nunique >= 2 THEN "weighted" ELSE "binary"
\* average_method
AverageMethod(mt, nunique) ==
  IF mt = "Classification" /\ nunique > 2 THEN "weighted" ELSE "binary"

ProbaMetric_noClassCheck(hasProba, nunique_test) ==
  IF hasProba THEN SomeFloat ELSE NoneV
\* The value stored under "Brier Score" and under "AUC".
ProbaMetric(hasProba, nunique_test) ==
  IF hasProba /\ nunique_test = 2 THEN SomeFloat ELSE NoneV

ClassificationMetrics ==
  {"Train Accuracy", "Test Accuracy", "Precision", "Recall", "F1-score",
   "Brier Score", "AUC"}
RegressionMetrics == {"Train R2 Score", "Test R2 Score", "MSE", "MAE", "RMSE"}

\* results[name]
MetricMapping(mt, name, score, nunique_test) ==
  IF mt = "Classification"
    THEN [m \in ClassificationMetrics |->
            IF m = "Test Accuracy" THEN Float(score)
            ELSE IF m \in {"Brier Score", "AUC"}
              THEN ProbaMetric(HasPredictProba(mt, name), nunique_test)
            ELSE SomeFloat]
    ELSE [m \in RegressionMetrics |->
            IF m = "Test R2 Score" THEN Float(score) ELSE SomeFloat]

IsBetter_orEqual(a, b) ==
  a.kind = "float" /\ (b.kind = "-inf" \/ (b.kind = "float" /\ a.v >= b.v))
\* test_accuracy > best_accuracy
IsBetter(a, b) ==
  a.kind = "float" /\ (b.kind = "-inf" \/ (b.kind = "float" /\ a.v > b.v))

\* The metrics the results loop writes: those whose value is not None.
Written(mapping) == {m \in DOMAIN mapping : mapping[m] # NoneV}

LimeApplies_anyPredictor(mt, best) == best # None
\* best_model is not None and hasattr(best_model, 'predict_proba')
LimeApplies(mt, best) == best # None /\ HasPredictProba(mt, best)

\* The prediction function handed to explain_instance.
LimePredictFn(mt) ==
  IF mt = "Classification" THEN "predict_proba" ELSE "predict"

ScalerAfterTransform_refit(s, part) == [s EXCEPT !.fit_on = Append(@, part)]
\* scaler.transform(X_test): reads the fitted statistics.
ScalerAfterTransform(s, part) == s

\* scaler.fit_transform(X_train): fits the statistics on the partition.
ScalerAfterFit(s, part) == [s EXCEPT !.fit_on = Append(@, part)]

\* -------------------------------------------------------------------- state
VARIABLES
  uploaded_file,      \* widget: the uploaded file, or NoFile
  model_type,         \* widget: the radio selection
  button,             \* widget: the button pressed to start this run
  pc,                 \* position of the script run
  data,               \* the cleaned table
  target_column,
  feature_columns,
  split,              \* the partitions' target profile, once split
  scaler,             \* StandardScaler: the partitions it was fit on
  k,                  \* index in the roster of the candidate being trained
  fitted,             \* candidates whose fit was called in this run
  results,
  best_model_name,
  best_accuracy,
  average_method,
  displayed,          \* metric names written to the page
  best_shown,         \* the name in the "Best Model" heading
  shap,
  lime,
  lime_fn,
  plots,
  errors,             \* st.error messages of this run, in order
  warnings,           \* st.warning messages of this run, in order
  raised,             \* where the train handler's try block raised
  uncaught            \* the statement whose exception left the script

vars ==
  <<uploaded_file, model_type, button, pc, data, target_column,
    feature_columns, split, scaler, k, fitted, results, best_model_name,
    best_accuracy, average_method, displayed, best_shown, shap, lime, lime_fn,
    plots, errors, warnings, raised, uncaught>>

widgets == <<uploaded_file, model_type, button>>
prepared == <<data, target_column, feature_columns, split, scaler>>
training ==
  <<k, fitted, results, best_model_name, best_accuracy, average_method,
    raised>>
page == <<displayed, best_shown, shap, lime, lime_fn, plots, errors, warnings>>

NoSplit == [nunique_train |-> 0, nunique_test |-> 0]
NewScaler == [fit_on |-> <<>>]
EmptyResults == [n \in {} |-> NoneV]

\* The state a script run starts in, given the widget values.
RunStart(f, mt, b) ==
  [uploaded_file |-> f, model_type |-> mt, button |-> b, pc |-> "start",
   data |-> NoTable, target_column |-> None, feature_columns |-> <<>>,
   split |-> NoSplit, scaler |-> NewScaler, k |-> 0, fitted |-> <<>>,
   results |-> EmptyResults, best_model_name |-> None,
   best_accuracy |-> NegInf, average_method |-> None, displayed |-> {},
   best_shown |-> None, shap |-> "none", lime |-> "none", lime_fn |-> None,
   plots |-> {}, errors |-> <<>>, warnings |-> <<>>, raised |-> "none",
   uncaught |-> "none"]

\* The first run of a session: nothing uploaded, the radio on its first
\* option, no button pressed.
Init ==
    LET s == RunStart(NoFile, "Classification", "none") IN
      /\ uploaded_file = s.uploaded_file /\ model_type = s.model_type
      /\ button = s.button /\ pc = s.pc /\ data = s.data
      /\ target_column = s.target_column
      /\ feature_columns = s.feature_columns /\ split = s.split
      /\ scaler = s.scaler /\ k = s.k /\ fitted = s.fitted
      /\ results = s.results /\ best_model_name = s.best_model_name
      /\ best_accuracy = s.best_accuracy
      /\ average_method = s.average_method /\ displayed = s.displayed
      /\ best_shown = s.best_shown /\ shap = s.shap /\ lime = s.lime
      /\ lime_fn = s.lime_fn /\ plots = s.plots /\ errors = s.errors
      /\ warnings = s.warnings /\ raised = s.raised /\ uncaught = s.uncaught

\* An exception outside every try block ends the script run.
Propagate(stmt) ==
  /\ pc' = "crashed"
  /\ uncaught' = stmt

\* ------------------------------------------------------- load and prepare
\* No file uploaded: the body of the script is skipped.
NoUpload ==
  /\ pc = "start" /\ uploaded_file = NoFile
  /\ pc' = "done"
  /\ UNCHANGED <<widgets, prepared, training, page, uncaught>>

\* pd.read_csv / pd.read_excel, dropna.
LoadData ==
  /\ pc = "start" /\ uploaded_file # NoFile
  /\ data' = uploaded_file
  /\ pc' = "select"
  /\ UNCHANGED <<widgets, target_column, feature_columns, split, scaler,
                 training, page, uncaught>>

LoadDataRaises ==
  /\ pc = "start" /\ uploaded_file # NoFile
  /\ Propagate("load")
  /\ UNCHANGED <<widgets, prepared, training, page>>

\* The target selectbox and the feature list; the guard of the modelling body.
SelectColumns ==
  /\ pc = "select"
  /\ LET opts == TargetOptions(data, model_type) IN
       \E tc \in (IF opts = <<>> THEN {None} ELSE Range(opts)) :
         /\ target_column' = tc
         /\ feature_columns' = FeatureColumns(data.columns, tc)
         /\ pc' = IF tc # None /\ feature_columns' # <<>>
                    THEN "encode" ELSE "done"
  /\ UNCHANGED <<widgets, data, split, scaler, training, page, uncaught>>

\* LabelEncoder().fit_transform(y), classification only.
EncodeTarget ==
  /\ pc = "encode"
  /\ pc' = "split"
  /\ UNCHANGED <<widgets, prepared, training, page, uncaught>>

EncodeTargetRaises ==
  /\ pc = "encode" /\ model_type = "Classification"
  /\ Propagate("encode")
  /\ UNCHANGED <<widgets, prepared, training, page>>

\* train_test_split(X, y, test_size=0.2, random_state=42)
TrainTestSplit ==
  /\ pc = "split"
  /\ split' \in TargetProfiles(model_type)
  /\ pc' = "scaler_fit"
  /\ UNCHANGED <<widgets, data, target_column, feature_columns, scaler,
                 training, page, uncaught>>

TrainTestSplitRaises ==
  /\ pc = "split"
  /\ Propagate("split")
  /\ UNCHANGED <<widgets, prepared, training, page>>

\* X_train = scaler.fit_transform(X_train).  The scaler works on floats: it
\* returns only when no feature column is an object column.
ScalerFit ==
  /\ pc = "scaler_fit"
  /\ \A c \in Range(feature_columns) : c \in data.numeric
  /\ scaler' = ScalerAfterFit(scaler, "train")
  /\ pc' = "scaler_transform"
  /\ UNCHANGED <<widgets, data, target_column, feature_columns, split,
                 training, page, uncaught>>

ScalerFitRaises ==
  /\ pc = "scaler_fit"
  /\ Propagate("standardize")
  /\ UNCHANGED <<widgets, prepared, training, page>>

\* X_test = scaler.transform(X_test)
ScalerTransform ==
  /\ pc = "scaler_transform"
  /\ scaler' = ScalerAfterTransform(scaler, "test")
  /\ pc' = "tsne"
  /\ UNCHANGED <<widgets, data, target_column, feature_columns, split,
                 training, page, uncaught>>

ScalerTransformRaises ==
  /\ pc = "scaler_transform"
  /\ Propagate("standardize")
  /\ UNCHANGED <<widgets, prepared, training, page>>

\* ------------------------------------------------------------- projections
\* The t-SNE block: its button was not pressed in this run.
TSNENotPressed ==
  /\ pc = "tsne" /\ button # "tsne"
  /\ pc' = "pca"
  /\ UNCHANGED <<widgets, prepared, training, page, uncaught>>

\* TSNE(...).fit_transform(X) on the unsplit feature matrix, then the plot.
TSNEAnalysis ==
  /\ pc = "tsne" /\ button = "tsne"
  /\ plots' = plots \cup {"tsne"}
  /\ pc' = "pca"
  /\ UNCHANGED <<widgets, prepared, training, displayed, best_shown, shap,
                 lime, lime_fn, errors, warnings, uncaught>>

TSNEAnalysisRaises ==
  /\ pc = "tsne" /\ button = "tsne"
  /\ errors' = Append(errors, "t-SNE analysis")
  /\ pc' = "pca"
  /\ UNCHANGED <<widgets, prepared, training, displayed, best_shown, shap,
                 lime, lime_fn, plots, warnings, uncaught>>

PCANotPressed ==
  /\ pc = "pca" /\ button # "pca"
  /\ pc' = "train"
  /\ UNCHANGED <<widgets, prepared, training, page, uncaught>>

\* PCA(n_components=2).fit_transform(X), then the plot.
PCAAnalysis ==
  /\ pc = "pca" /\ button = "pca"
  /\ plots' = plots \cup {"pca"}
  /\ pc' = "train"
  /\ UNCHANGED <<widgets, prepared, training, displayed, best_shown, shap,
                 lime, lime_fn, errors, warnings, uncaught>>

PCAAnalysisRaises ==
  /\ pc = "pca" /\ button = "pca"
  /\ errors' = Append(errors, "PCA analysis")
  /\ pc' = "train"
  /\ UNCHANGED <<widgets, prepared, training, displayed, best_shown, shap,
                 lime, lime_fn, plots, warnings, uncaught>>

\* ------------------------------------------------------ train and evaluate
TrainNotPressed ==
  /\ pc = "train" /\ button # "train"
  /\ pc' = "done"
  /\ UNCHANGED <<widgets, prepared, training, page, uncaught>>

\* The train button: results = {}, best_* reset, the scan starts.
TrainPressed ==
  /\ pc = "train" /\ button = "train"
  /\ results' = EmptyResults
  /\ best_model_name' = None
  /\ best_accuracy' = NegInf
  /\ k' = 1
  /\ pc' = "loop"
  /\ UNCHANGED <<widgets, prepared, fitted, average_method, raised, page,
                 uncaught>>

OnTrainingException_skip(i) == [pc |-> "loop", k |-> i + 1]
\* except Exception of the train handler: the try block is left.
OnTrainingException(i) == [pc |-> "done", k |-> i]

ShownInLoop_eachCandidate(shown, mapping) == shown \cup Written(mapping)
\* What the loop body writes to the page of a candidate's metrics.
ShownInLoop(shown, mapping) == shown

\* model.fit(X_train, y_train) raises for candidate k.
FitRaises ==
  /\ pc = "loop" /\ k <= Len(models(model_type))
  /\ fitted' = Append(fitted, models(model_type)[k])
  /\ raised' = "fit"
  /\ errors' = Append(errors, "model training or evaluation")
  /\ pc' = OnTrainingException(k).pc
  /\ k' = OnTrainingException(k).k
  /\ UNCHANGED <<widgets, prepared, results, best_model_name, best_accuracy,
                 average_method, displayed, best_shown, shap, lime, lime_fn,
                 plots, warnings, uncaught>>

\* Candidate k is fit; a predict or metric call then raises.
ScoreRaises ==
  /\ pc = "loop" /\ k <= Len(models(model_type))
  /\ fitted' = Append(fitted, models(model_type)[k])
  /\ average_method' = AverageMethod(model_type, split.nunique_train)
  /\ raised' = "score"
  /\ errors' = Append(errors, "model training or evaluation")
  /\ pc' = OnTrainingException(k).pc
  /\ k' = OnTrainingException(k).k
  /\ UNCHANGED <<widgets, prepared, results, best_model_name, best_accuracy,
                 displayed, best_shown, shap, lime, lime_fn, plots, warnings,
                 uncaught>>

\* The loop body for candidate k: fit, predict, metrics, best-model update.
FitAndScore ==
  /\ pc = "loop" /\ k <= Len(models(model_type))
  /\ \E score \in 0..MaxScore :
       LET name == models(model_type)[k]
           test_accuracy == Float(score)
           mapping ==
             MetricMapping(model_type, name, score, split.nunique_test)
       IN
         /\ fitted' = Append(fitted, name)
         /\ average_method' = AverageMethod(model_type, split.nunique_train)
         /\ results' = (name :> mapping) @@ results
         /\ IF IsBetter(test_accuracy, best_accuracy)
              THEN /\ best_accuracy' = test_accuracy
                   /\ best_model_name' = name
              ELSE UNCHANGED <<best_accuracy, best_model_name>>
         /\ displayed' = ShownInLoop(displayed, mapping)
  /\ k' = k + 1
  /\ UNCHANGED <<widgets, prepared, raised, pc, best_shown, shap, lime,
                 lime_fn, plots, errors, warnings, uncaught>>

\* After the scan: results[best_model_name] and the lines of its metrics.
PrintResults ==
  /\ pc = "loop" /\ k > Len(models(model_type))
  /\ IF best_model_name \in DOMAIN results
       THEN /\ best_shown' = best_model_name
            /\ displayed' = displayed \cup Written(results[best_model_name])
            /\ pc' = "shap"
            /\ UNCHANGED <<errors, raised>>
       ELSE /\ errors' = Append(errors, "model training or evaluation")
            /\ raised' = "results"
            /\ pc' = "done"
            /\ UNCHANGED <<best_shown, displayed>>
  /\ UNCHANGED <<widgets, prepared, k, fitted, results, best_model_name,
                 best_accuracy, average_method, shap, lime, lime_fn, plots,
                 warnings, uncaught>>

\* ------------------------------------------------------------ explanations
AfterShapFailure_abort == "done"
\* The SHAP block has its own try/except: the script goes on to LIME.
AfterShapFailure == "lime"

\* shap.Explainer on the best model and the summary plot.
ShapSummary ==
  /\ pc = "shap" /\ best_model_name # None
  /\ shap' = "ok"
  /\ plots' = plots \cup {"shap"}
  /\ pc' = "lime"
  /\ UNCHANGED <<widgets, prepared, training, displayed, best_shown, lime,
                 lime_fn, errors, warnings, uncaught>>

ShapSummaryRaises ==
  /\ pc = "shap" /\ best_model_name # None
  /\ shap' = "failed"
  /\ errors' = Append(errors, "SHAP analysis")
  /\ pc' = AfterShapFailure
  /\ UNCHANGED <<widgets, prepared, training, displayed, best_shown, lime,
                 lime_fn, plots, warnings, uncaught>>

\* LimeTabularExplainer and explain_instance on X_test[0].
LimeExplanation ==
  /\ pc = "lime" /\ LimeApplies(model_type, best_model_name)
  /\ lime' = "ok"
  /\ lime_fn' = LimePredictFn(model_type)
  /\ plots' = plots \cup {"lime"}
  /\ pc' = "done"
  /\ UNCHANGED <<widgets, prepared, training, displayed, best_shown, shap,
                 errors, warnings, uncaught>>

LimeExplanationRaises ==
  /\ pc = "lime" /\ LimeApplies(model_type, best_model_name)
  /\ lime' = "failed"
  /\ lime_fn' = LimePredictFn(model_type)
  /\ errors' = Append(errors, "LIME analysis")
  /\ pc' = "done"
  /\ UNCHANGED <<widgets, prepared, training, displayed, best_shown, shap,
                 plots, warnings, uncaught>>

\* The else branch: st.warning, no explainer is built.
LimeSkipped ==
  /\ pc = "lime" /\ ~LimeApplies(model_type, best_model_name)
  /\ lime' = "skipped"
  /\ warnings' = Append(warnings, "LIME cannot be applied")
  /\ pc' = "done"
  /\ UNCHANGED <<widgets, prepared, training, displayed, best_shown, shap,
                 lime_fn, plots, errors, uncaught>>

\* -------------------------------------------------------------------- rerun
\* The widget values after one user interaction: a button pressed, or the
\* file or the radio changed (no button is pressed in that run).
Interactions(f, mt) ==
  {<<f, mt, b>> : b \in Buttons \ {"none"}}
    \cup {<<g, mt, "none">> : g \in (Tables \cup {NoFile}) \ {f}}
    \cup {<<f, t, "none">> : t \in ModelTypes \ {mt}}

\* A user interaction after a run ended: the script runs again from the top.
Rerun ==
  /\ pc \in {"done", "crashed"}
  /\ \E w \in Interactions(uploaded_file, model_type) :
       LET s == RunStart(w[1], w[2], w[3]) IN
         /\ uploaded_file' = s.uploaded_file /\ model_type' = s.model_type
         /\ button' = s.button /\ pc' = s.pc /\ data' = s.data
         /\ target_column' = s.target_column
         /\ feature_columns' = s.feature_columns /\ split' = s.split
         /\ scaler' = s.scaler /\ k' = s.k /\ fitted' = s.fitted
         /\ results' = s.results /\ best_model_name' = s.best_model_name
         /\ best_accuracy' = s.best_accuracy
         /\ average_method' = s.average_method /\ displayed' = s.displayed
         /\ best_shown' = s.best_shown /\ shap' = s.shap /\ lime' = s.lime
         /\ lime_fn' = s.lime_fn /\ plots' = s.plots /\ errors' = s.errors
         /\ warnings' = s.warnings /\ raised' = s.raised
         /\ uncaught' = s.uncaught

Next ==
  \/ NoUpload \/ LoadData \/ LoadDataRaises
  \/ SelectColumns
  \/ EncodeTarget \/ EncodeTargetRaises
  \/ TrainTestSplit \/ TrainTestSplitRaises
  \/ ScalerFit \/ ScalerFitRaises
  \/ ScalerTransform \/ ScalerTransformRaises
  \/ TSNENotPressed \/ TSNEAnalysis \/ TSNEAnalysisRaises
  \/ PCANotPressed \/ PCAAnalysis \/ PCAAnalysisRaises
  \/ TrainNotPressed \/ TrainPressed
  \/ FitRaises \/ ScoreRaises \/ FitAndScore
  \/ PrintResults
  \/ ShapSummary \/ ShapSummaryRaises
  \/ LimeExplanation \/ LimeExplanationRaises \/ LimeSkipped
  \/ Rerun

Spec == Init /\ [][Next]_vars

\* ------------------------------------------------------------------ claims
\* The metric the scan compares: "Test Accuracy" or "Test R2 Score".
PrimaryMetric(mt) ==
  IF mt = "Classification" THEN "Test Accuracy" ELSE "Test R2 Score"

Roster == models(model_type)
ScoreOf(i) == results[Roster[i]][PrimaryMetric(model_type)].v
\* The scan went through the whole roster without an exception.
ScanComplete == k = Len(Roster) + 1 /\ raised = "none"
\* The prepare stage ran to its end in this run.
Standardized ==
  \/ pc \in {"tsne", "pca", "train", "loop", "shap", "lime"}
  \/ pc = "done" /\ split # NoSplit
\* The condition under which the script computes Brier score and AUC.
ProbaDefined(name) ==
  HasPredictProba(model_type, name) /\ split.nunique_test = 2

C2_LimeAttemptedWhenPredictorExists ==
  (pc = "done" /\ best_shown # None) =>
    LET precondition ==
          IF model_type = "Classification"
            THEN HasPredictProba(model_type, best_shown)
            ELSE best_shown \in Range(RegressorNames)
    IN (lime \in {"ok", "failed"}) <=> precondition

\* C3 (as claimed): a failure of the global explanation keeps the local
\* explanation from running, and a failure of fitting or scoring keeps both
\* explanations from running.
C3_ChainAbortsOnAnyFailure ==
  /\ shap = "failed" => lime = "none"
  /\ raised # "none" => (shap = "none" /\ lime = "none")

\* C3 (amended): a failure of fitting or scoring keeps both explanations from
\* running; a failure of the global explanation is reported and the run still
\* reaches the local explanation block, which runs or is skipped on its own
\* precondition.
C3_ShapFailureDoesNotStopLime ==
  /\ raised # "none" => (shap = "none" /\ lime = "none")
  /\ (pc = "done" /\ shap = "failed") =>
       /\ lime # "none"
       /\ \E i \in 1..Len(errors) : errors[i] = "SHAP analysis"
       /\ (lime \in {"ok", "failed"}) <=> LimeApplies(model_type, best_shown)

\* C3 witness: a run whose SHAP step failed and whose LIME step then ran.
C3_Witness == pc = "done" /\ shap = "failed" /\ lime = "ok"

\* C4 (as claimed): no exception of a library call leaves the script; every
\* failure ends in a reported error message.
C4_NoFailurePropagates == uncaught = "none"

\* C5 (as claimed): in a classification run the keys "Brier Score" and "AUC"
\* are in a scored candidate's mapping if and only if the candidate has a
\* probability output and the test target has exactly 2 distinct values.
C5_ProbaMetricsAbsentFromMapping ==
  model_type = "Classification" =>
    \A n \in DOMAIN results :
      \A m \in {"Brier Score", "AUC"} :
        (m \in DOMAIN results[n]) <=> ProbaDefined(n)

\* C5 (amended): in a classification run both keys are in every scored
\* candidate's mapping; their value is a number if and only if the candidate
\* has a probability output and the test target has exactly 2 distinct
\* values, and None otherwise; a None entry is left out of the displayed
\* metrics.
C5_ProbaMetricsNoneWhenUndefined ==
  model_type = "Classification" =>
    /\ \A n \in DOMAIN results :
         \A m \in {"Brier Score", "AUC"} :
           /\ m \in DOMAIN results[n]
           /\ results[n][m] \in {SomeFloat, NoneV}
           /\ (results[n][m] # NoneV) <=> ProbaDefined(n)
    /\ best_shown # None =>
         \A m \in {"Brier Score", "AUC"} :
           (m \in displayed) <=> ProbaDefined(best_shown)

\* C5 witness: a classification run with 3 distinct test values whose best
\* model's metrics were displayed without the two entries, stored as None.
C5_Witness ==
  /\ model_type = "Classification" /\ split.nunique_test = 3
  /\ best_shown # None
  /\ results[best_shown]["AUC"] = NoneV
  /\ results[best_shown]["Brier Score"] = NoneV
  /\ "Test Accuracy" \in displayed
  /\ "AUC" \notin displayed /\ "Brier Score" \notin displayed

\* C6 (as claimed): in a classification run the averaging mode is "binary"
\* if and only if the train target has exactly 2 distinct classes, and
\* "weighted" for every other number of classes.
C6_BinaryIffExactlyTwoClasses ==
  (model_type = "Classification" /\ average_method # None) =>
    /\ (average_method = "binary") <=> (split.nunique_train = 2)
    /\ (average_method = "weighted") <=> (split.nunique_train # 2)

\* C6 (amended): in a classification run the averaging mode is "weighted" if
\* and only if the train target has more than 2 distinct classes, and
\* "binary" when it has 2 or 1.
C6_WeightedIffMoreThanTwoClasses ==
  (model_type = "Classification" /\ average_method # None) =>
    /\ (average_method = "weighted") <=> (split.nunique_train > 2)
    /\ (average_method = "binary") <=> (split.nunique_train <= 2)

\* C6 witness: a classification run over a single-class train target whose
\* candidate was scored with the "binary" mode.
C6_Witness ==
  /\ model_type = "Classification" /\ split.nunique_train = 1
  /\ average_method = "binary" /\ results # EmptyResults

C7_Halted ==
  raised = "fit" =>
    /\ pc = "done"
    /\ errors # <<>>
    /\ errors[Len(errors)] = "model training or evaluation"
    /\ fitted = SubSeq(Roster, 1, k)
    /\ DOMAIN results = {Roster[i] : i \in 1..(k - 1)}
    /\ split \in TargetProfiles(model_type)
    /\ scaler = ScalerAfterFit(NewScaler, "train")
C7_FailureStep ==
  (raised = "none" /\ raised' = "fit") =>
    /\ split' = split /\ scaler' = scaler
    /\ data' = data /\ feature_columns' = feature_columns
    /\ target_column' = target_column
\* C7: when the fit of candidate k raises, the error is reported for this
\* trigger, the run ends with no candidate after k fit or scored, and the
\* failing step leaves the split and the scaler as they were.
C7_FitFailureHaltsScan == []C7_Halted /\ [][C7_FailureStep]_vars

\* C7 witness: the fit of the third candidate raised after two were scored.
C7_Witness ==
  /\ raised = "fit" /\ k = 3 /\ Cardinality(DOMAIN results) = 2
  /\ scaler.fit_on = <<"train">>

\* C8: once the columns are selected, the feature list does not contain the
\* target column and contains every other column of the table, in both the
\* classification and the regression branch.
C8_FeaturesAreAllButTarget ==
  (pc \notin {"start", "select"} /\ data # NoTable) =>
    /\ target_column \notin Range(feature_columns)
    /\ \A c \in Range(data.columns) :
         c # target_column => c \in Range(feature_columns)
    /\ Range(feature_columns) \subseteq Range(data.columns)

\* C8 witness: a regression run on the table of two numeric columns with
\* target "y", past the point where the feature matrix is built and scaled.
C8_Witness ==
  /\ model_type = "Regression" /\ target_column = "y"
  /\ data.columns = <<"x", "y">> /\ feature_columns = <<"x">>
  /\ pc = "tsne"

\* C9: the scaler is fit at most once in a run and only on the train
\* partition; after the prepare stage, transforming the test partition and
\* every later step included, its state is still the one fit on the train
\* partition.
C9_ScalerFitOnTrainOnly ==
  /\ scaler.fit_on \in {<<>>, <<"train">>}
  /\ Standardized => scaler.fit_on = <<"train">>

\* C9 witness: the test partition was transformed and a projection was then
\* fit on the unsplit matrix, with the scaler still fit on train alone.
C9_Witness ==
  /\ "tsne" \in plots /\ pc = "pca"
  /\ scaler = ScalerAfterFit(NewScaler, "train")

\* C10: when fitting or scoring a candidate raises, nothing of any
\* candidate's metrics is displayed for that trigger, no best model is
\* announced and no explanation is attempted; metrics and a best model are
\* displayed only after every roster entry was fit and scored.
C10_AllOrNothing ==
  /\ raised # "none" =>
       /\ displayed = {} /\ best_shown = None
       /\ shap = "none" /\ lime = "none"
  /\ (displayed # {} \/ best_shown # None) =>
       /\ DOMAIN results = Range(Roster)
       /\ fitted = Roster

\* C10 witness: scoring the third candidate raised after two candidates were
\* scored, and nothing was displayed.
C10_Witness ==
  /\ raised = "score" /\ Cardinality(DOMAIN results) = 2
  /\ displayed = {} /\ best_shown = None /\ pc = "done"

====
